---- MODULE Spec2Model ----
(***************************************************************************)
(* Model of src/app.py: the request handler's parsing of the requested     *)
(* count (index) and the MCQ generator (generate_mcqs).                    *)
(*                                                                         *)
(* A Python str is a sequence of characters; a character is a TLA+ string. *)
(* "SIGMA", "sigma" and "fsigma" stand for the single characters U+03A3,   *)
(* U+03C3 and U+03C2, the one letter whose str.lower() depends on context. *)
(* The spaCy pipeline nlp is a deterministic function of its argument; its *)
(* values at the strings a call uses are part of the initial state.        *)
(***************************************************************************)
EXTENDS Integers, Sequences, FiniteSets, TLC

VARIABLES
    text,               \* generate_mcqs argument `text`
    form,               \* request.form value of "num_questions"
    nlpSents,           \* nlp(text).sents: the raw sentence spans of text
    nlpToks,            \* nlp(s) for each string s it is called on: its tokens
    pc,                 \* position in index / generate_mcqs
    num_questions,      \* local num_questions
    sentences,          \* local sentences
    global_nouns,       \* local global_nouns
    selected_sentences, \* positions (in sentences) drawn by random.sample
    i,                  \* number of loop iterations completed
    sentence,           \* loop variable
    nouns,              \* local nouns
    subject,            \* local subject
    question_stem,      \* local question_stem
    distractor_pool,    \* local distractor_pool, after padding
    mcqs                \* local mcqs, the returned list

vars == <<text, form, nlpSents, nlpToks, pc, num_questions, sentences,
          global_nouns, selected_sentences, i, sentence, nouns, subject,
          question_stem, distractor_pool, mcqs>>

inputs == <<text, form, nlpSents, nlpToks>>

locals == <<sentence, nouns, subject, question_stem, distractor_pool>>

(***************************************************************************)
(* Bounds of the input families.                                           *)
(***************************************************************************)
MaxLen == 2         \* longest text of the document family, in characters
MaxStemLen == 3     \* longest text of the stem family, in characters
MaxCount == 1       \* largest requested count in the form
MaxToks == 3        \* most tokens of one annotated sentence
MaxLemmaLen == 2    \* longest lemma of the stem family

(***************************************************************************)
(* Program constants.                                                      *)
(***************************************************************************)
DefaultCount == 5
NumChoices == 3

Marker == <<"_", "_", "_", "_", "_", "_">>

Sentinel == <<"[", "d", "i", "s", "t", "r", "a", "c", "t", "o", "r", "]">>

NounTags == {"NOUN", "PROPN"}

(***************************************************************************)
(* Python str and list primitives.                                         *)
(***************************************************************************)
Min(S) == CHOOSE x \in S : \A y \in S : x <= y

Cased(c) == c \in {"a", "A", "b", "B", "c", "d", "SIGMA", "sigma", "fsigma",
                   "i", "s", "t", "r", "o"}

\* str.lower(): character by character, except capital sigma, which becomes
\* the final form after a cased letter when no cased letter follows.
LowerAt(s, j) ==
    CASE s[j] = "A" -> "a"
      [] s[j] = "B" -> "b"
      [] s[j] = "SIGMA" ->
            IF /\ j > 1
               /\ Cased(s[j - 1])
               /\ (j = Len(s) \/ ~Cased(s[j + 1]))
            THEN "fsigma" ELSE "sigma"
      [] OTHER -> s[j]

Lower(s) == [j \in 1..Len(s) |-> LowerAt(s, j)]

IsSpace(c) == c = " "

\* str.strip()
Strip(s) ==
    LET keep == {j \in 1..Len(s) : ~IsSpace(s[j])}
    IN  IF keep = {} THEN <<>>
        ELSE SubSeq(s, Min(keep), CHOOSE x \in keep : \A y \in keep : y <= x)

\* str.find(sub): the lowest 0-based index of sub in s, or -1
Find(s, sub) ==
    LET at == {j \in 0..(Len(s) - Len(sub)) :
                   SubSeq(s, j + 1, j + Len(sub)) = sub}
    IN  IF at = {} THEN -1 ELSE Min(at)

\* s[a:b] with 0 <= a
Slice(s, a, b) == SubSeq(s, a + 1, IF b > Len(s) THEN Len(s) ELSE b)

\* str.replace(old, new, 1) for a non-empty old
ReplaceFirst(s, old, new) ==
    LET idx == Find(s, old)
    IN  IF idx = -1 THEN s
        ELSE Slice(s, 0, idx) \o new \o Slice(s, idx + Len(old), Len(s))

\* list(dict.fromkeys(xs)): first occurrences, in order
RECURSIVE DictFromKeys(_)
DictFromKeys(xs) ==
    IF xs = <<>> THEN <<>>
    ELSE LET r == DictFromKeys(SubSeq(xs, 1, Len(xs) - 1))
             x == xs[Len(xs)]
         IN  IF \E j \in 1..Len(r) : r[j] = x THEN r ELSE Append(r, x)

Truthy(w) == w # <<>>

\* [token.lemma_ for token in doc if token.pos_ in ("NOUN", "PROPN")]
NounLemmas(toks) ==
    LET ns == SelectSeq(toks, LAMBDA t : t.pos \in NounTags)
    IN  [j \in 1..Len(ns) |-> ns[j].lemma]

\* the noun pool of an annotated string: lines 42-43 and 51-52
NounPool(toks) == SelectSeq(DictFromKeys(NounLemmas(toks)), Truthy)

Count(xs, x) == Cardinality({j \in 1..Len(xs) : xs[j] = x})

\* Counter(xs).most_common(1)[0][0]: the highest count, the first inserted
\* key among equal counts
MostCommon(xs) ==
    LET best == {j \in 1..Len(xs) :
                    \A k \in 1..Len(xs) : Count(xs, xs[k]) <= Count(xs, xs[j])}
    IN  xs[Min(best)]

\* all orders random.shuffle can leave a list in
Shuffles(xs) ==
    LET n == Len(xs)
        perms == {p \in [1..n -> 1..n] : \A a, b \in 1..n : p[a] = p[b] => a = b}
    IN  {[j \in 1..n |-> xs[p[j]]] : p \in perms}

\* random.choices in place of random.sample: positions may repeat
SamplesWithReplacement(n, k) == [1..k -> 1..n]

\* all results of random.sample(range(n), k) for 0 <= k <= n
Samples(n, k) ==
    {p \in [1..k -> 1..n] : \A a, b \in 1..k : p[a] = p[b] => a = b}

\* list.index(x): 0-based position of the first element equal to x
IndexOf(xs, x) == Min({j \in 1..Len(xs) : xs[j] = x}) - 1

\* chr(65 + n)
Chr65(n) == <<"A", "B", "C", "D">>[n + 1]

(***************************************************************************)
(* int(request.form.get("num_questions", 5)) with its except clause.       *)
(***************************************************************************)
ParseCount(f) == IF f.kind = "int" THEN f.val ELSE DefaultCount

(***************************************************************************)
(* Input families.                                                         *)
(***************************************************************************)
Strings(S, n) == UNION {[1..m -> S] : m \in 0..n}

RECURSIVE SpansFrom(_, _, _)
SpansFrom(t, start, cuts) ==
    IF start > Len(t) THEN <<>>
    ELSE LET later == {c \in cuts : c >= start}
             end == IF later = {} THEN Len(t) ELSE Min(later)
         IN  <<SubSeq(t, start, end)>> \o SpansFrom(t, end + 1, cuts)

\* the filter of line 37 left out
StrippedSentencesUnfiltered(spans) == [j \in 1..Len(spans) |-> Strip(spans[j])]

\* the sentences list of line 37: stripped, non-empty
StrippedSentences(spans) ==
    SelectSeq([j \in 1..Len(spans) |-> Strip(spans[j])], Truthy)

NlpArgs(t, spans) ==
    {t} \cup {StrippedSentences(spans)[j] : j \in 1..Len(StrippedSentences(spans))}

Forms ==
    {[kind |-> "missing", val |-> 0], [kind |-> "text", val |-> 0]}
    \cup {[kind |-> "int", val |-> v] : v \in (0 - 1)..MaxCount}

Tok(l, p) == [lemma |-> l, pos |-> p]

\* Documents: every text over two letters and the space, every segmentation
\* of it, every requested count, and annotations with at most one noun.
DocAlphabet == {"a", "b", " "}

DocTokSeqs == {<<>>, <<Tok(<<"a">>, "NOUN")>>}

InitDocs ==
    /\ text \in Strings(DocAlphabet, MaxLen)
    /\ \E cuts \in SUBSET (1..(Len(text) - 1)) : nlpSents = SpansFrom(text, 1, cuts)
    /\ form \in Forms
    /\ nlpToks \in [NlpArgs(text, nlpSents) -> DocTokSeqs]

\* Stems: one sentence, every text over letters with and without case, and one
\* noun whose lemma is any short string over those letters.
StemAlphabet == {"a", "A", "SIGMA"}

StemLemmas == Strings(StemAlphabet, MaxLemmaLen) \ {<<>>}

InitStems ==
    /\ text \in Strings(StemAlphabet, MaxStemLen)
    /\ nlpSents = IF text = <<>> THEN <<>> ELSE <<text>>
    /\ form = [kind |-> "int", val |-> 1]
    /\ \E l \in StemLemmas :
         nlpToks = [s \in NlpArgs(text, nlpSents) |->
                        IF s = Strip(text) THEN <<Tok(l, "NOUN")>> ELSE <<>>]

\* Choices: one sentence inside a longer text, every annotation of the
\* sentence up to MaxToks noun tokens, and two annotations of the whole text.
ChoiceText == <<" ", "a">>

ChoiceToks ==
    {Tok(<<"a">>, "NOUN"), Tok(<<"A">>, "PROPN"), Tok(<<"b">>, "NOUN"),
     Tok(<<"B">>, "PROPN"), Tok(<<"c">>, "NOUN")}

ChoiceDocToks ==
    {<<>>,
     <<Tok(<<"b">>, "NOUN"), Tok(<<"d">>, "VERB"), Tok(<<"B">>, "PROPN"),
       Tok(<<>>, "NOUN"), Tok(<<"b">>, "NOUN"), Tok(<<"c">>, "NOUN")>>}

InitChoices ==
    /\ text = ChoiceText
    /\ nlpSents = <<text>>
    /\ form = [kind |-> "int", val |-> 1]
    /\ \E st \in Strings(ChoiceToks, MaxToks), dt \in ChoiceDocToks :
         nlpToks = [s \in NlpArgs(text, nlpSents) |-> IF s = text THEN dt ELSE st]

Inputs == InitDocs \/ InitStems \/ InitChoices

Init ==
    /\ Inputs
    /\ pc = "index"
    /\ num_questions = 0
    /\ sentences = <<>>
    /\ global_nouns = <<>>
    /\ selected_sentences = <<>>
    /\ i = 0
    /\ sentence = <<>>
    /\ nouns = <<>>
    /\ subject = <<>>
    /\ question_stem = <<>>
    /\ distractor_pool = <<>>
    /\ mcqs = <<>>

(***************************************************************************)
(* index: lines 145-150.                                                   *)
(***************************************************************************)
Index ==
    /\ pc = "index"
    /\ num_questions' = ParseCount(form)
    /\ pc' = "start"
    /\ UNCHANGED <<inputs, sentences, global_nouns, selected_sentences, i,
                   locals, mcqs>>

(***************************************************************************)
(* generate_mcqs: lines 33-89.                                             *)
(***************************************************************************)
ReturnEmptyText ==
    /\ pc = "start"
    /\ text = <<>>
    /\ pc' = "done"
    /\ UNCHANGED <<inputs, num_questions, sentences, global_nouns,
                   selected_sentences, i, locals, mcqs>>

ReturnNoSentences ==
    /\ pc = "start"
    /\ text # <<>>
    /\ StrippedSentences(nlpSents) = <<>>
    /\ sentences' = <<>>
    /\ pc' = "done"
    /\ UNCHANGED <<inputs, num_questions, global_nouns, selected_sentences, i,
                   locals, mcqs>>

BuildGlobalPool ==
    /\ pc = "start"
    /\ text # <<>>
    /\ StrippedSentences(nlpSents) # <<>>
    /\ sentences' = StrippedSentences(nlpSents)
    /\ global_nouns' = NounPool(nlpToks[text])
    /\ pc' = "sample"
    /\ UNCHANGED <<inputs, num_questions, selected_sentences, i, locals, mcqs>>

\* max in place of min
ClampedCountMax(k, n) == IF k < n THEN n ELSE k

\* line 45
ClampedCount(k, n) == IF k < n THEN k ELSE n

SampleRaises ==
    /\ pc = "sample"
    /\ ClampedCount(num_questions, Len(sentences)) < 0
    /\ num_questions' = ClampedCount(num_questions, Len(sentences))
    /\ pc' = "ValueError"
    /\ UNCHANGED <<inputs, sentences, global_nouns, selected_sentences, i,
                   locals, mcqs>>

Sample ==
    /\ pc = "sample"
    /\ ClampedCount(num_questions, Len(sentences)) >= 0
    /\ num_questions' = ClampedCount(num_questions, Len(sentences))
    /\ selected_sentences' \in Samples(Len(sentences), num_questions')
    /\ mcqs' = <<>>
    /\ pc' = "loop"
    /\ UNCHANGED <<inputs, sentences, global_nouns, i, locals>>

Return ==
    /\ pc = "loop"
    /\ i = Len(selected_sentences)
    /\ pc' = "done"
    /\ UNCHANGED <<inputs, num_questions, sentences, global_nouns,
                   selected_sentences, i, locals, mcqs>>

NextSentence ==
    /\ pc = "loop"
    /\ i < Len(selected_sentences)
    /\ sentence' = sentences[selected_sentences[i + 1]]
    /\ nouns' = NounPool(nlpToks[sentence'])
    /\ pc' = "subject"
    /\ UNCHANGED <<inputs, num_questions, sentences, global_nouns,
                   selected_sentences, i, subject, question_stem,
                   distractor_pool, mcqs>>

ChooseRandom ==
    /\ pc = "subject"
    /\ nouns = <<>>
    /\ global_nouns # <<>>
    /\ \E j \in 1..Len(global_nouns) : subject' = global_nouns[j]
    /\ pc' = "blank"
    /\ UNCHANGED <<inputs, num_questions, sentences, global_nouns,
                   selected_sentences, i, sentence, nouns, question_stem,
                   distractor_pool, mcqs>>

ChooseMostCommon ==
    /\ pc = "subject"
    /\ nouns # <<>>
    /\ subject' = MostCommon(nouns)
    /\ pc' = "blank"
    /\ UNCHANGED <<inputs, num_questions, sentences, global_nouns,
                   selected_sentences, i, sentence, nouns, question_stem,
                   distractor_pool, mcqs>>

Skip ==
    /\ pc = "subject"
    /\ nouns = <<>>
    /\ global_nouns = <<>>
    /\ i' = i + 1
    /\ pc' = "loop"
    /\ UNCHANGED <<inputs, num_questions, sentences, global_nouns,
                   selected_sentences, locals, mcqs>>

\* the case-insensitive search left out: only the exact replacement
BlankStemExactOnly(sent, subj) == ReplaceFirst(sent, subj, Marker)

\* the exact-match fallback left out
BlankStemNoFallback(sent, subj) ==
    LET idx == Find(Lower(sent), Lower(subj))
    IN  IF idx # -1
        THEN Slice(sent, 0, idx) \o Marker \o Slice(sent, idx + Len(subj), Len(sent))
        ELSE sent

\* lines 64-71
BlankStem(sent, subj) ==
    LET idx == Find(Lower(sent), Lower(subj))
    IN  IF idx # -1
        THEN Slice(sent, 0, idx) \o Marker \o Slice(sent, idx + Len(subj), Len(sent))
        ELSE ReplaceFirst(sent, subj, Marker)

Blank ==
    /\ pc = "blank"
    /\ question_stem' = BlankStem(sentence, subject)
    /\ pc' = "distractors"
    /\ UNCHANGED <<inputs, num_questions, sentences, global_nouns,
                   selected_sentences, i, sentence, nouns, subject,
                   distractor_pool, mcqs>>

\* line 75 left out: no deduplication
CandidatesNoDedup(ns, gs, subj) ==
    SelectSeq(ns \o gs, LAMBDA n : Lower(n) # Lower(subj))

\* line 74 comparing without lower()
CandidatesExactCase(ns, gs, subj) ==
    DictFromKeys(SelectSeq(ns \o gs, LAMBDA n : n # subj))

\* lines 74-75
Candidates(ns, gs, subj) ==
    DictFromKeys(SelectSeq(ns \o gs, LAMBDA n : Lower(n) # Lower(subj)))

\* lines 78-79
RECURSIVE Pad(_)
Pad(pool) == IF Len(pool) < NumChoices THEN Pad(Append(pool, Sentinel)) ELSE pool

Distractors ==
    /\ pc = "distractors"
    /\ distractor_pool' = Pad(Candidates(nouns, global_nouns, subject))
    /\ pc' = "choices"
    /\ UNCHANGED <<inputs, num_questions, sentences, global_nouns,
                   selected_sentences, i, sentence, nouns, subject,
                   question_stem, mcqs>>

\* lines 81-87
Choices(subj, shuffled) == <<subj>> \o SubSeq(shuffled, 1, NumChoices)

\* the letter taken before the shuffle of line 83
McqLetterFirst(stem, answers, subj) ==
    [stem |-> stem, choices |-> answers, letter |-> Chr65(0)]

Mcq(stem, answers, subj) ==
    [stem |-> stem, choices |-> answers, letter |-> Chr65(IndexOf(answers, subj))]

AppendMcq ==
    /\ pc = "choices"
    /\ \E shuffled \in Shuffles(distractor_pool) :
         \E answer_choices \in Shuffles(Choices(subject, shuffled)) :
            mcqs' = Append(mcqs, Mcq(question_stem, answer_choices, subject))
    /\ i' = i + 1
    /\ pc' = "loop"
    /\ UNCHANGED <<inputs, num_questions, sentences, global_nouns,
                   selected_sentences, locals>>

Next ==
    \/ Index
    \/ ReturnEmptyText
    \/ ReturnNoSentences
    \/ BuildGlobalPool
    \/ SampleRaises
    \/ Sample
    \/ Return
    \/ NextSentence
    \/ ChooseRandom
    \/ ChooseMostCommon
    \/ Skip
    \/ Blank
    \/ Distractors
    \/ AppendMcq

Spec == Init /\ [][Next]_vars

(***************************************************************************)
(* Vocabulary of the properties.                                           *)
(***************************************************************************)
Letters == {"A", "B", "C", "D"}

LetterPos(l) == CASE l = "A" -> 1 [] l = "B" -> 2 [] l = "C" -> 3 [] OTHER -> 4

SubjectOf(m) == m.choices[LetterPos(m.letter)]

DistractorsOf(m) ==
    [j \in 1..3 |-> m.choices[IF j < LetterPos(m.letter) THEN j ELSE j + 1]]

Range(xs) == {xs[j] : j \in 1..Len(xs)}

Last == mcqs[Len(mcqs)]

\* the iteration that just ended appended an MCQ (a skipped one has no pool)
JustAppended == pc = "loop" /\ i > 0 /\ (nouns # <<>> \/ global_nouns # <<>>)

Requested == ParseCount(form)

NonEmptySpans == {j \in 1..Len(nlpSents) : Strip(nlpSents[j]) # <<>>}

NumSentences == IF text = <<>> THEN 0 ELSE Cardinality(NonEmptySpans)

Smaller(a, b) == IF a < b THEN a ELSE b

MatchAt == Find(Lower(sentence), Lower(subject))

\* the lemmas a distractor may be: sentence and global nouns that differ from
\* the subject even when case is ignored
RealPool == {n \in Range(nouns \o global_nouns) : Lower(n) # Lower(subject)}

SkippedAt(p) ==
    /\ NounPool(nlpToks[sentences[selected_sentences[p]]]) = <<>>
    /\ global_nouns = <<>>

KeptUpTo(p) == {q \in 1..p : ~SkippedAt(q)}

NthKept(j) == CHOOSE p \in 1..i : ~SkippedAt(p) /\ Cardinality(KeptUpTo(p)) = j

(***************************************************************************)
(* C1: every MCQ has exactly 4 choices and a correct letter among A..D,    *)
(* and the choice at the letter's position (A=0 .. D=3) is the subject     *)
(* chosen for that question.                                               *)
(***************************************************************************)
C1_FourChoicesLetterNamesSubject ==
    /\ \A j \in 1..Len(mcqs) :
          Len(mcqs[j].choices) = 4 /\ mcqs[j].letter \in Letters
    /\ JustAppended =>
          /\ Len(mcqs) > 0
          /\ Last.choices[LetterPos(Last.letter)] = subject

C1_Witness ==
    /\ JustAppended
    /\ Len(mcqs) > 0
    /\ Last.letter = "D"
    /\ Last.choices[4] = subject
    /\ \A j \in 1..3 : Last.choices[j] # Sentinel

(***************************************************************************)
(* C2: an empty text, or a text whose sentence spans are all blank, makes  *)
(* the call return an empty list whatever the requested count, without     *)
(* sampling and without building a question.                               *)
(***************************************************************************)
NoSentence ==
    \/ text = <<>>
    \/ \A j \in 1..Len(nlpSents) :
          \A c \in 1..Len(nlpSents[j]) : IsSpace(nlpSents[j][c])

C2_EmptyInputReturnsEmpty ==
    NoSentence =>
        /\ pc \in {"index", "start", "done"}
        /\ mcqs = <<>>
        /\ selected_sentences = <<>>

C2_Witness ==
    /\ pc = "done"
    /\ text # <<>>
    /\ NoSentence
    /\ Requested = 0 - 1
    /\ mcqs = <<>>

(***************************************************************************)
(* C3: for a requested count k >= 0 and n non-empty sentences the list     *)
(* never has more than min(k, n) MCQs: at most n when k > n, none when     *)
(* k = 0.                                                                  *)
(***************************************************************************)
C3_AtMostMinOfCountAndSentences ==
    Requested >= 0 => Len(mcqs) <= Smaller(Requested, NumSentences)

C3_Witness ==
    /\ pc = "done"
    /\ NumSentences >= 2
    /\ Requested > NumSentences
    /\ Len(mcqs) = NumSentences

(***************************************************************************)
(* C4: with a non-empty sentence noun pool the subject is the lemma that   *)
(* occurs most often among the sentence's noun tokens, the first seen      *)
(* among equally frequent ones.                                            *)
(***************************************************************************)
C4_SubjectIsMostFrequentLemma ==
    (pc = "blank" /\ nouns # <<>>) =>
        subject = MostCommon(SelectSeq(NounLemmas(nlpToks[sentence]), Truthy))

(***************************************************************************)
(* C5: when the subject is found case-insensitively in the sentence, the   *)
(* stem contains the blank marker and contains the subject's text nowhere, *)
(* ignoring case.                                                          *)
(***************************************************************************)
C5_StemHidesSubjectEverywhere ==
    (pc = "distractors" /\ MatchAt # -1) =>
        /\ Find(question_stem, Marker) # -1
        /\ Find(Lower(question_stem), Lower(subject)) = -1

(***************************************************************************)
(* C5 as amended: when the lowercased subject is found in the lowercased   *)
(* sentence, the stem is the sentence with the span at the first such      *)
(* position (as long as the subject) replaced by the blank marker: the     *)
(* text before and after that span is kept, later occurrences included.    *)
(***************************************************************************)
C5_FirstOccurrenceBlanked ==
    (pc = "distractors" /\ MatchAt # -1) =>
        LET idx == MatchAt
            n == Len(subject)
        IN  /\ Find(question_stem, Marker) # -1
            /\ Len(question_stem) = Len(sentence) - n + Len(Marker)
            /\ \A j \in 1..idx : question_stem[j] = sentence[j]
            /\ \A j \in 1..Len(Marker) : question_stem[idx + j] = "_"
            /\ \A j \in (idx + n + 1)..Len(sentence) :
                  question_stem[j - n + Len(Marker)] = sentence[j]

C5_Witness ==
    /\ pc = "distractors"
    /\ MatchAt > 0
    /\ SubSeq(sentence, MatchAt + 1, MatchAt + Len(subject)) # subject
    /\ Find(Lower(question_stem), Lower(subject)) # -1

(***************************************************************************)
(* C6: in every MCQ of the list (while it is built and when it is          *)
(* returned) no distractor equals the subject when case is ignored, the    *)
(* subject occurs exactly once among the choices, and no two choices other *)
(* than the sentinel are the same string when case is ignored.             *)
(***************************************************************************)
C6_NoTwoChoicesEqualIgnoringCase ==
    pc \in {"loop", "done"} =>
      \A j \in 1..Len(mcqs) :
        LET m == mcqs[j]
        IN  /\ \A d \in 1..3 : Lower(DistractorsOf(m)[d]) # Lower(SubjectOf(m))
            /\ Cardinality({p \in 1..4 : m.choices[p] = SubjectOf(m)}) = 1
            /\ \A p, q \in 1..4 :
                  (p < q /\ m.choices[p] # Sentinel /\ m.choices[q] # Sentinel)
                      => Lower(m.choices[p]) # Lower(m.choices[q])

(***************************************************************************)
(* C6 as amended: in every MCQ of the list (while it is built and when it  *)
(* is returned) no distractor equals the subject when case is ignored, the *)
(* subject occurs exactly once among the choices, and no two choices other *)
(* than the sentinel are the same string (two may differ by case only).    *)
(***************************************************************************)
C6_NoTwoChoicesIdentical ==
    pc \in {"loop", "done"} =>
      \A j \in 1..Len(mcqs) :
        LET m == mcqs[j]
        IN  /\ \A d \in 1..3 : Lower(DistractorsOf(m)[d]) # Lower(SubjectOf(m))
            /\ Cardinality({p \in 1..4 : m.choices[p] = SubjectOf(m)}) = 1
            /\ \A p, q \in 1..4 :
                  (p < q /\ m.choices[p] # Sentinel /\ m.choices[q] # Sentinel)
                      => m.choices[p] # m.choices[q]

C6_Witness ==
    /\ JustAppended
    /\ Len(mcqs) > 0
    /\ subject = <<"c">>
    /\ <<"a">> \in Range(Last.choices)
    /\ <<"A">> \in Range(Last.choices)
    /\ <<"b">> \in Range(Last.choices)

(***************************************************************************)
(* C7: the call never aborts with an error, for any text and any count the *)
(* handler forwards (any parsed integer, or 5 for a missing or non-numeric *)
(* form value).                                                            *)
(***************************************************************************)
C7_NeverRaises == pc # "ValueError"

(***************************************************************************)
(* C8: with d the number of distinct lemmas of the sentence and global     *)
(* pools that differ from the subject ignoring case: if d >= 3 the three   *)
(* distractors are pairwise distinct lemmas of that pool and none is the   *)
(* sentinel; if d < 3 they are exactly those d lemmas and 3 - d sentinels. *)
(***************************************************************************)
C8_DistractorsFromPoolThenSentinels ==
    JustAppended =>
        /\ Len(mcqs) > 0
        /\ LET ds == DistractorsOf(Last)
               d == Cardinality(RealPool)
               real == {j \in 1..3 : ds[j] # Sentinel}
           IN  /\ \A j \in real : ds[j] \in RealPool
               /\ \A j, k \in real : ds[j] = ds[k] => j = k
               /\ d >= 3 => Cardinality(real) = 3
               /\ d < 3 => /\ {ds[j] : j \in real} = RealPool
                           /\ Cardinality(real) = d
                           /\ Cardinality({j \in 1..3 : ds[j] = Sentinel}) = 3 - d

C8_Witness ==
    /\ JustAppended
    /\ Len(mcqs) > 0
    /\ Cardinality(RealPool) = 4
    /\ \A j \in 1..3 : DistractorsOf(Last)[j] \in RealPool

(***************************************************************************)
(* C9: no sentence position is sampled twice; a sampled sentence is        *)
(* skipped exactly when its own noun pool and the global pool are both     *)
(* empty and every other one appends exactly one MCQ, so that for k >= 0   *)
(* the result has min(k, n) entries less the skipped ones, in the order    *)
(* the sentences were drawn.                                               *)
(***************************************************************************)
C9_SampledOnceSkippedOrAppendedInOrder ==
    /\ \A a, b \in 1..Len(selected_sentences) :
          /\ selected_sentences[a] \in 1..Len(sentences)
          /\ selected_sentences[a] = selected_sentences[b] => a = b
    /\ i <= Len(selected_sentences)
    /\ pc \in {"loop", "done"} =>
          /\ Len(mcqs) = Cardinality(KeptUpTo(i))
          /\ \A j \in 1..Len(mcqs) :
                mcqs[j].stem =
                    BlankStem(sentences[selected_sentences[NthKept(j)]],
                              SubjectOf(mcqs[j]))
    /\ (pc = "done" /\ Requested >= 0) =>
          /\ i = Smaller(Requested, NumSentences)
          /\ Len(mcqs) = Smaller(Requested, NumSentences) - (i - Cardinality(KeptUpTo(i)))

C9_Witness ==
    /\ pc = "done"
    /\ selected_sentences = <<2, 1>>
    /\ sentences[1] # sentences[2]
    /\ SkippedAt(1)
    /\ ~SkippedAt(2)
    /\ Len(mcqs) = 1

(***************************************************************************)
(* C10: a sampled sentence without nouns, the global pool being non-empty, *)
(* gets a subject from the global pool and still yields an MCQ; and        *)
(* whenever the subject is not found case-insensitively in the sentence,   *)
(* the exact-match fallback finds nothing either and the stem is the       *)
(* sentence unchanged.                                                     *)
(***************************************************************************)
GlobalSubjectYieldsMcq ==
    /\ (pc = "blank" /\ nouns = <<>>) => subject \in Range(global_nouns)
    /\ (pc = "loop" /\ i > 0 /\ nouns = <<>> /\ global_nouns # <<>>) =>
          /\ Len(mcqs) > 0
          /\ SubjectOf(Last) \in Range(global_nouns)

C10_FallbackFindsNothing ==
    /\ GlobalSubjectYieldsMcq
    /\ (pc = "distractors" /\ MatchAt = -1) =>
          /\ Find(sentence, subject) = -1
          /\ question_stem = sentence

(***************************************************************************)
(* C10 as amended: a sampled sentence without nouns, the global pool being *)
(* non-empty, gets a subject from the global pool and still yields an MCQ; *)
(* and whenever the lowercased subject is not found in the lowercased      *)
(* sentence, the stem is the sentence unchanged unless the subject occurs  *)
(* in it exactly (lower() maps a capital sigma by its context), in which   *)
(* case the first exact occurrence is replaced by the blank marker.        *)
(***************************************************************************)
C10_UnmatchedSubjectLeavesStem ==
    /\ GlobalSubjectYieldsMcq
    /\ (pc = "distractors" /\ MatchAt = -1) =>
          LET e == Find(sentence, subject)
              n == Len(subject)
          IN  /\ e = -1 => question_stem = sentence
              /\ e # -1 =>
                    /\ Len(question_stem) = Len(sentence) - n + Len(Marker)
                    /\ \A j \in 1..e : question_stem[j] = sentence[j]
                    /\ \A j \in 1..Len(Marker) : question_stem[e + j] = "_"
                    /\ \A j \in (e + n + 1)..Len(sentence) :
                          question_stem[j - n + Len(Marker)] = sentence[j]

C10_Witness ==
    /\ pc = "distractors"
    /\ nouns = <<>>
    /\ subject \in Range(global_nouns)
    /\ MatchAt = -1
    /\ question_stem = sentence

====
